---- MODULE Spec2Model ----
(***************************************************************************)
(* Task lifecycle of the student API server: the intake handler            *)
(* api_endpoint (app/main.py), the Task table (app/models.py) and the      *)
(* background pipeline process_task with its collaborators                 *)
(* (workers/tasks.py).                                                     *)
(***************************************************************************)
EXTENDS Integers, Sequences, FiniteSets, TLC

(* ------------------------------ bounds -------------------------------- *)
\* total number of calls of api_endpoint in a behaviour
MaxRequests == 2
\* total number of deliveries of enqueued jobs to workers in a behaviour (the
\* queue is at-least-once: it may deliver one job more than once)
MaxDeliveries == 2
\* how many executions (api_endpoint calls and process_task runs together) may
\* be in progress at once
MaxInProgress == 2
\* the published page may start answering 200 at poll 1..MaxLivePoll, or never
MaxLivePoll == 1
\* the evaluator may answer 200 at attempt 1..MaxOkAttempt, or never
MaxOkAttempt == 1

(* ------------------------- program constants --------------------------- *)
VERIFY_TIMEOUT == 300
VERIFY_INTERVAL == 10
STOP_AFTER_DELAY == 600
WAIT_MULTIPLIER == 2
WAIT_MIN == 2
WAIT_MAX == 16

(* ------------------------------ values --------------------------------- *)
None == "None"
\* the null value of the columns and locals that hold a repository, commit or page
NoUrl == <<>>
Clients == {"c1", "c2"}
Workers == {"w1", "w2"}
\* request values, in the order in which a behaviour first uses them
Nonces == <<"n-001", "n-002">>
Rounds == <<1, 2>>
TaskNames == <<"portfolio", "blog">>
EXPECTED_SECRET == "s3cret"
Secrets == {EXPECTED_SECRET, "wrong"}
EvaluationUrls == {None, "https://eval.example/cb"}

\* texts of the exceptions the pipeline can store in error_message
ErrMissingFields == "Missing required fields for evaluation notification."
ErrNoEvaluationUrl == "No evaluation_url found for task."
ErrNotifyFailed == "Failed to notify evaluator: RetryError"
ErrProvider == "GithubException"

TERMINAL == {"COMPLETE", "FAILED"}

VARIABLES
    tasks,          \* the tasks table: sequence of rows, tasks[i].id = i
    requests,       \* per client: the api_endpoint call in progress
    response,       \* the answer api_endpoint returned in the step just taken, if any
    supplied,       \* supplied[id]: the evaluation_url of the request that created row id
    requests_made,  \* number of api_endpoint calls started
    sent,           \* sent[id]: number of send_task calls made for task id
    delivered,      \* delivered[id]: number of deliveries of that job to a worker
    runs,           \* per worker: the process_task execution in progress
    finished,       \* the process_task execution that returned in the step just taken
    github_token,   \* whether GITHUB_TOKEN is configured
    repos_created   \* number of repositories created at the hosting provider

vars == <<tasks, requests, response, supplied, requests_made, sent, delivered, runs,
          finished, github_token, repos_created>>

TaskIds == 1..MaxRequests

\* the variables only api_endpoint writes
Intake == <<requests, supplied, requests_made, sent>>

(* ------------------------------ the store ------------------------------ *)
\* models.Task: one row of the tasks table
Task(id, nonce, status, task_name, round) ==
    [id |-> id, nonce |-> nonce, status |-> status, task_name |-> task_name,
     round |-> round, completed_at |-> None, repo_url |-> NoUrl,
     commit_sha |-> NoUrl, pages_url |-> NoUrl, evaluation_url |-> None,
     error_message |-> None]

Rows == {tasks[i] : i \in 1..Len(tasks)}

\* the nonce column without its unique constraint
IntegrityErrorNever(nonce) == FALSE

\* unique=True on Task.nonce: the commit of an insert raises IntegrityError
IntegrityError(nonce) == \E t \in Rows : t.nonce = nonce

\* the lookup with a misspelt status
ExistingCompleteMisspelt(nonce, round) ==
    {t \in Rows : t.nonce = nonce /\ t.round = round /\ t.status = "COMPLETED"}

\* db.query(Task).filter(nonce, round, status == "COMPLETE").first()
ExistingComplete(nonce, round) ==
    {t \in Rows : t.nonce = nonce /\ t.round = round /\ t.status = "COMPLETE"}

\* db.query(Task).filter(nonce, round).first() after the rollback
ExistingTask(nonce, round) ==
    {t \in Rows : t.nonce = nonce /\ t.round = round}

\* .first(): the row with the lowest id of a query result
First(S) == CHOOSE t \in S : \A u \in S : t.id <= u.id

\* one execution of process_task: its position, its locals, and what it did
IdleRun ==
    [pc |-> "idle", task_id |-> 0, repo_url |-> NoUrl, clock |-> 0,
     created |-> FALSE, push_failed |-> FALSE, polls |-> 0, timed_out |-> FALSE,
     posts |-> 0, last_post_at |-> 0, post_target |-> None, got200 |-> FALSE,
     waits |-> <<>>]

(* ------------------------------ intake --------------------------------- *)
IdleRequest ==
    [pc |-> "idle", secret |-> None, nonce |-> None, round |-> 0, task_name |-> None,
     evaluation_url |-> None, new_id |-> 0]

InFlight(c) == requests[c].pc # "idle"
Busy(w) == runs[w].pc # "idle"

\* the number of api_endpoint calls and process_task runs in progress
InProgress ==
    Cardinality({c \in Clients : InFlight(c)}) + Cardinality({w \in Workers : Busy(w)})

\* AcknowledgementResponse(status, task, nonce)
AcknowledgementResponse(status, task, nonce) ==
    [status |-> status, task |-> task, nonce |-> nonce]

NoBody == AcknowledgementResponse(None, None, None)
NoRow == Task(0, None, None, None, 0)

\* what api_endpoint answered: the HTTP status code and body, with the request
\* it answers, the branch that answered and the row that branch had read
Answer(req, code, body, via, row) ==
    [code |-> code, body |-> body, via |-> via, row |-> row,
     secret |-> req.secret, nonce |-> req.nonce, round |-> req.round,
     task |-> req.task_name]

NoAnswer == Answer(IdleRequest, 0, NoBody, None, NoRow)

Range(seq) == {seq[i] : i \in 1..Len(seq)}

\* The values a new request may carry for one field: those some row or some
\* request in progress already carries, and the first one none carries yet. The
\* handler only compares these values for equality, so which unused value a
\* request brings makes no difference.
UsedOrNext(seq, used) ==
    {seq[i] : i \in {j \in 1..Len(seq) : \A k \in 1..(j - 1) : seq[k] \in used}}

Carried(field) ==
    {t[field] : t \in Rows} \cup {requests[c][field] : c \in {d \in Clients : InFlight(d)}}

\* the secret check passing an empty or wrong secret
InvalidSecretUnchecked(secret) == FALSE

\* request.secret != EXPECTED_SECRET
InvalidSecret(secret) == secret # EXPECTED_SECRET

\* api_endpoint, lines 42-55: secret check and the lookup of a COMPLETE task
Receive(c) ==
    /\ ~InFlight(c)
    /\ c = "c1" \/ InFlight("c1")
    /\ InProgress < MaxInProgress
    /\ requests_made < MaxRequests
    /\ requests_made' = requests_made + 1
    /\ \E secret \in Secrets,
          nonce \in UsedOrNext(Nonces, Carried("nonce")),
          round \in UsedOrNext(Rounds, Carried("round")),
          task \in UsedOrNext(TaskNames, Carried("task_name")),
          url \in EvaluationUrls :
         LET req == [IdleRequest EXCEPT !.secret = secret, !.nonce = nonce,
                        !.round = round,
                        !.task_name = task, !.evaluation_url = url]
             existing == ExistingComplete(nonce, round)
         IN  IF InvalidSecret(secret)
             THEN /\ response' = Answer(req, 403, NoBody, "secret", NoRow)
                  /\ UNCHANGED requests
             ELSE IF existing # {}
             THEN /\ response' = Answer(req, 200,
                        AcknowledgementResponse(First(existing).status,
                            First(existing).task_name, First(existing).nonce),
                        "complete", First(existing))
                  /\ UNCHANGED requests
             ELSE /\ requests' = [requests EXCEPT ![c] = [req EXCEPT !.pc = "insert"]]
                  /\ response' = NoAnswer
    /\ finished' = IdleRun
    /\ UNCHANGED <<tasks, supplied, sent, delivered, runs, github_token, repos_created>>

\* api_endpoint, lines 57-79: insert of the new row, or the IntegrityError path
Insert(c) ==
    LET req == requests[c]
        existing_task == ExistingTask(req.nonce, req.round)
    IN
    /\ req.pc = "insert"
    /\ IF IntegrityError(req.nonce)
       THEN /\ requests' = [requests EXCEPT ![c] = IdleRequest]
            /\ response' =
                 IF existing_task # {}
                 THEN Answer(req, 200,
                         AcknowledgementResponse(First(existing_task).status,
                             First(existing_task).task_name,
                             First(existing_task).nonce),
                         "integrity", First(existing_task))
                 ELSE Answer(req, 409, NoBody, "integrity", NoRow)
            /\ UNCHANGED <<tasks, supplied>>
       ELSE /\ tasks' = Append(tasks,
                  Task(Len(tasks) + 1, req.nonce, "RECEIVED", req.task_name, req.round))
            /\ supplied' = [supplied EXCEPT ![Len(tasks) + 1] = req.evaluation_url]
            /\ requests' = [requests EXCEPT ![c] =
                  [req EXCEPT !.pc = "dispatch", !.new_id = Len(tasks) + 1]]
            /\ response' = NoAnswer
    /\ finished' = IdleRun
    /\ UNCHANGED <<requests_made, sent, delivered, runs, github_token, repos_created>>

\* the handler acknowledging without calling send_task
DispatchNothing(c) ==
    LET req == requests[c] IN
    /\ req.pc = "dispatch"
    /\ requests' = [requests EXCEPT ![c] = IdleRequest]
    /\ response' = Answer(req, 200,
                      AcknowledgementResponse("RECEIVED", req.task_name, req.nonce),
                      "created", NoRow)
    /\ finished' = IdleRun
    /\ UNCHANGED <<tasks, supplied, requests_made, sent, delivered, runs, github_token,
                   repos_created>>

\* api_endpoint, lines 81-85: send_task and the RECEIVED acknowledgement
Dispatch(c) ==
    LET req == requests[c] IN
    /\ req.pc = "dispatch"
    /\ sent' = [sent EXCEPT ![req.new_id] = @ + 1]
    /\ requests' = [requests EXCEPT ![c] = IdleRequest]
    /\ response' = Answer(req, 200,
                      AcknowledgementResponse("RECEIVED", req.task_name, req.nonce),
                      "created", NoRow)
    /\ finished' = IdleRun
    /\ UNCHANGED <<tasks, supplied, requests_made, delivered, runs, github_token,
                   repos_created>>

(* --------------------------- the collaborators ------------------------- *)
\* Python truthiness of a value that is None or a non-empty string
Present(v) == v # NoUrl

\* create_github_repo: clone URL of student-task-{nonce}-{round}-{uuid suffix}
CloneUrl(task, suffix) == <<"repo", task.nonce, task.round, suffix>>

\* push_to_github: git rev-parse HEAD of the commit pushed to that repository
CommitSha(repo_url) == <<"sha", repo_url[2], repo_url[3], repo_url[4]>>

\* verify_pages_deployment: https://{owner}.github.io/{repo}/
PagesUrlOf(repo_url) == <<"pages", repo_url[2], repo_url[3], repo_url[4]>>

\* the polling loop with the deadline test off by one (elapsed <= timeout)
RECURSIVE VerifyLoopInclusive(_, _, _)
VerifyLoopInclusive(elapsed, polls, live_at) ==
    IF elapsed <= VERIFY_TIMEOUT
    THEN IF polls + 1 = live_at
         THEN [polls |-> polls + 1, waited |-> elapsed, verified |-> TRUE]
         ELSE VerifyLoopInclusive(elapsed + VERIFY_INTERVAL, polls + 1, live_at)
    ELSE [polls |-> polls, waited |-> elapsed, verified |-> FALSE]

\* verify_pages_deployment, the polling loop: one GET per iteration, 200 at
\* poll live_at (0: never), then sleep(interval); elapsed counts the sleeps
RECURSIVE VerifyLoop(_, _, _)
VerifyLoop(elapsed, polls, live_at) ==
    IF elapsed < VERIFY_TIMEOUT
    THEN IF polls + 1 = live_at
         THEN [polls |-> polls + 1, waited |-> elapsed, verified |-> TRUE]
         ELSE VerifyLoop(elapsed + VERIFY_INTERVAL, polls + 1, live_at)
    ELSE [polls |-> polls, waited |-> elapsed, verified |-> FALSE]

Min(a, b) == IF a < b THEN a ELSE b
Max(a, b) == IF a > b THEN a ELSE b

\* 2 ** n; beyond 2 ** 20 the clamp of wait_exponential makes the value
\* indistinguishable, and the model stays within 32-bit integers
Pow2(n) == 2 ^ Min(n, 20)

\* the backoff with the exponent one too high: 4, 8, 16, 16, ...
WaitExponentialFromFour(attempt) ==
    Max(WAIT_MIN, Min(WAIT_MULTIPLIER * Pow2(attempt), WAIT_MAX))

\* wait_exponential(multiplier=2, min=2, max=16) after the attempt-th failure
WaitExponential(attempt) ==
    Max(WAIT_MIN, Min(WAIT_MULTIPLIER * Pow2(attempt - 1), WAIT_MAX))

\* stop_after_delay(600): checked after a failed attempt, on the time since
\* the first attempt of this post_with_retry call
StopAfterDelay(seconds_since_start) == seconds_since_start >= STOP_AFTER_DELAY

\* post_with_retry under @retry: attempt number `attempt` starts t seconds
\* after the call; the evaluator answers 200 at attempt ok_at (0: never),
\* every other attempt raises (non-200 or transport error)
RECURSIVE PostWithRetry(_, _, _, _)
PostWithRetry(attempt, t, ok_at, waits) ==
    IF attempt = ok_at
    THEN [ok |-> TRUE, attempts |-> attempt, last_start |-> t, waits |-> waits]
    ELSE IF StopAfterDelay(t)
    THEN [ok |-> FALSE, attempts |-> attempt, last_start |-> t, waits |-> waits]
    ELSE PostWithRetry(attempt + 1, t + WaitExponential(attempt), ok_at,
                       Append(waits, WaitExponential(attempt)))

\* the outcomes of the two loops, per environment choice
VerifyOutcome == [live_at \in 0..MaxLivePoll |-> VerifyLoop(0, 0, live_at)]
RetryOutcome == [ok_at \in 0..MaxOkAttempt |-> PostWithRetry(1, 0, ok_at, <<>>)]

(* ----------------------------- the pipeline ---------------------------- *)
\* the execution of worker w goes on as `run`
Continue(w, run) ==
    /\ runs' = [runs EXCEPT ![w] = run]
    /\ finished' = IdleRun
    /\ response' = NoAnswer

\* the execution of worker w returns (finally: db.close())
Return(w, run) ==
    /\ runs' = [runs EXCEPT ![w] = IdleRun]
    /\ finished' = [run EXCEPT !.pc = "done"]
    /\ response' = NoAnswer

\* the handler storing the error without the FAILED status
FailedStatusKept(task, message) ==
    [task EXCEPT !.error_message = message]

\* except Exception as e: status FAILED, error_message str(e), commit
Failed(task, message) ==
    [task EXCEPT !.status = "FAILED", !.error_message = message]

\* task.status = ...; db.commit()
SetStatus(w, status, next_pc) ==
    /\ tasks' = [tasks EXCEPT ![runs[w].task_id].status = status]
    /\ Continue(w, [runs[w] EXCEPT !.pc = next_pc])
    /\ UNCHANGED <<Intake, delivered, github_token, repos_created>>

RECURSIVE Sum(_, _)
Sum(f, n) == IF n = 0 THEN 0 ELSE f[n] + Sum(f, n - 1)

Deliveries == Sum(delivered, MaxRequests)

\* delivery of an enqueued job and process_task lines 33-41: fetch the row
Start(w) ==
    /\ ~Busy(w)
    /\ w = "w1" \/ Busy("w1")
    /\ InProgress < MaxInProgress
    /\ \E id \in TaskIds :
         /\ sent[id] > 0
         /\ Deliveries < MaxDeliveries
         /\ delivered' = [delivered EXCEPT ![id] = @ + 1]
         /\ IF id \in 1..Len(tasks)
            THEN Continue(w, [IdleRun EXCEPT !.pc = "generating", !.task_id = id])
            ELSE Return(w, [IdleRun EXCEPT !.task_id = id])
    /\ UNCHANGED <<tasks, Intake, github_token, repos_created>>

\* lines 43-61
GeneratingProject(w) ==
    /\ runs[w].pc = "generating"
    /\ SetStatus(w, "GENERATING_PROJECT", "create_repo")

\* lines 63-65
CreateRepoStatus(w) ==
    /\ runs[w].pc = "create_repo"
    /\ SetStatus(w, "CREATE_REPO", "create_repo_call")

\* create_github_repo calling the provider without testing the token
CreateRepoCallUnguarded(w) ==
    LET id == runs[w].task_id
        run == runs[w]
    IN
    /\ run.pc = "create_repo_call"
    /\ repos_created' = repos_created + 1
    /\ tasks' = [tasks EXCEPT ![id].repo_url = CloneUrl(tasks[id], repos_created + 1)]
    /\ Continue(w, [run EXCEPT !.pc = "push_commit", !.created = TRUE,
                    !.repo_url = CloneUrl(tasks[id], repos_created + 1)])
    /\ UNCHANGED <<Intake, delivered, github_token>>

\* lines 66-69 with create_github_repo; the provider may raise
CreateRepoCall(w) ==
    LET id == runs[w].task_id
        run == runs[w]
    IN
    /\ run.pc = "create_repo_call"
    /\ IF ~github_token
       THEN /\ Continue(w, [run EXCEPT !.pc = "push_commit"])
            /\ UNCHANGED <<tasks, repos_created>>
       ELSE \/ /\ repos_created' = repos_created + 1
               /\ tasks' = [tasks EXCEPT ![id].repo_url =
                               CloneUrl(tasks[id], repos_created + 1)]
               /\ Continue(w, [run EXCEPT !.pc = "push_commit", !.created = TRUE,
                               !.repo_url = CloneUrl(tasks[id], repos_created + 1)])
            \/ /\ tasks' = [tasks EXCEPT ![id] = Failed(@, ErrProvider)]
               /\ Return(w, run)
               /\ UNCHANGED repos_created
    /\ UNCHANGED <<Intake, delivered, github_token>>

\* lines 71-73
PushCommitStatus(w) ==
    /\ runs[w].pc = "push_commit"
    /\ SetStatus(w, "PUSH_COMMIT", "push_commit_call")

\* lines 74-77 with push_to_github: any git failure is swallowed into None
PushCommitCall(w) ==
    LET id == runs[w].task_id
        run == runs[w]
    IN
    /\ run.pc = "push_commit_call"
    /\ IF ~Present(run.repo_url) \/ ~github_token
       THEN /\ Continue(w, [run EXCEPT !.pc = "enable_pages"])
            /\ UNCHANGED tasks
       ELSE \/ /\ tasks' = [tasks EXCEPT ![id].commit_sha = CommitSha(run.repo_url)]
               /\ Continue(w, [run EXCEPT !.pc = "enable_pages"])
            \/ /\ Continue(w, [run EXCEPT !.pc = "enable_pages", !.push_failed = TRUE])
               /\ UNCHANGED tasks
    /\ UNCHANGED <<Intake, delivered, github_token, repos_created>>

\* lines 79-81
EnablePagesStatus(w) ==
    /\ runs[w].pc = "enable_pages"
    /\ SetStatus(w, "ENABLE_PAGES", "enable_pages_call")

\* line 82 with enable_github_pages; the provider may raise
EnablePagesCall(w) ==
    LET id == runs[w].task_id
        run == runs[w]
    IN
    /\ run.pc = "enable_pages_call"
    /\ IF ~github_token \/ ~Present(tasks[id].repo_url)
       THEN /\ Continue(w, [run EXCEPT !.pc = "verify_pages"])
            /\ UNCHANGED tasks
       ELSE \/ /\ Continue(w, [run EXCEPT !.pc = "verify_pages"])
               /\ UNCHANGED tasks
            \/ /\ tasks' = [tasks EXCEPT ![id] = Failed(@, ErrProvider)]
               /\ Return(w, run)
    /\ UNCHANGED <<Intake, delivered, github_token, repos_created>>

\* lines 84-86
VerifyPagesStatus(w) ==
    /\ runs[w].pc = "verify_pages"
    /\ SetStatus(w, "VERIFY_PAGES", "verify_pages_call")

\* lines 87-90 with verify_pages_deployment
VerifyPagesCall(w) ==
    LET id == runs[w].task_id
        run == runs[w]
    IN
    /\ run.pc = "verify_pages_call"
    /\ IF ~Present(tasks[id].repo_url)
       THEN /\ Continue(w, [run EXCEPT !.pc = "notify_evaluator"])
            /\ UNCHANGED tasks
       ELSE \E live_at \in 0..MaxLivePoll :
              LET v == VerifyOutcome[live_at] IN
              /\ tasks' = [tasks EXCEPT ![id].pages_url = PagesUrlOf(tasks[id].repo_url)]
              /\ Continue(w, [run EXCEPT !.pc = "notify_evaluator",
                                 !.polls = v.polls,
                                 !.timed_out = ~v.verified,
                                 !.clock = @ + v.waited])
    /\ UNCHANGED <<Intake, delivered, github_token, repos_created>>

\* lines 92-94
NotifyEvaluatorStatus(w) ==
    /\ runs[w].pc = "notify_evaluator"
    /\ SetStatus(w, "NOTIFY_EVALUATOR", "notify_evaluator_call")

\* notify_evaluator, lines 135-138: the callback URL it posts to
EvaluationUrlOf(task) ==
    IF task.evaluation_url = None /\ task.error_message # None
    THEN task.error_message
    ELSE task.evaluation_url

\* line 95 with notify_evaluator and post_with_retry
NotifyEvaluatorCall(w) ==
    LET id == runs[w].task_id
        run == runs[w]
        task == tasks[id]
        evaluation_url == EvaluationUrlOf(task)
    IN
    /\ run.pc = "notify_evaluator_call"
    /\ IF ~Present(task.pages_url) \/ ~Present(task.repo_url) \/ ~Present(task.commit_sha)
       THEN /\ tasks' = [tasks EXCEPT ![id] = Failed(@, ErrMissingFields)]
            /\ Return(w, run)
       ELSE IF evaluation_url = None
       THEN /\ tasks' = [tasks EXCEPT ![id] = Failed(@, ErrNoEvaluationUrl)]
            /\ Return(w, run)
       ELSE \E ok_at \in 0..MaxOkAttempt :
              LET p == RetryOutcome[ok_at]
                  posted == [run EXCEPT !.posts = p.attempts,
                                !.last_post_at = run.clock + p.last_start,
                                !.clock = @ + p.last_start,
                                !.post_target = evaluation_url,
                                !.got200 = p.ok,
                                !.waits = p.waits]
              IN IF p.ok
                 THEN /\ Continue(w, [posted EXCEPT !.pc = "complete"])
                      /\ UNCHANGED tasks
                 ELSE /\ tasks' = [tasks EXCEPT ![id] = Failed(@, ErrNotifyFailed)]
                      /\ Return(w, posted)
    /\ UNCHANGED <<Intake, delivered, github_token, repos_created>>

\* lines 97-100
Complete(w) ==
    /\ runs[w].pc = "complete"
    /\ tasks' = [tasks EXCEPT ![runs[w].task_id].status = "COMPLETE",
                              ![runs[w].task_id].completed_at = "utcnow"]
    /\ Return(w, runs[w])
    /\ UNCHANGED <<Intake, delivered, github_token, repos_created>>

(* --------------------------- the specification ------------------------- *)
Init ==
    /\ tasks = <<>>
    /\ requests = [c \in Clients |-> IdleRequest]
    /\ response = NoAnswer
    /\ supplied = [id \in TaskIds |-> None]
    /\ requests_made = 0
    /\ sent = [id \in TaskIds |-> 0]
    /\ delivered = [id \in TaskIds |-> 0]
    /\ runs = [w \in Workers |-> IdleRun]
    /\ finished = IdleRun
    /\ github_token \in BOOLEAN
    /\ repos_created = 0

Next ==
    \/ \E c \in Clients : Receive(c)
    \/ \E c \in Clients : Insert(c)
    \/ \E c \in Clients : Dispatch(c)
    \/ \E w \in Workers : Start(w)
    \/ \E w \in Workers : GeneratingProject(w)
    \/ \E w \in Workers : CreateRepoStatus(w)
    \/ \E w \in Workers : CreateRepoCall(w)
    \/ \E w \in Workers : PushCommitStatus(w)
    \/ \E w \in Workers : PushCommitCall(w)
    \/ \E w \in Workers : EnablePagesStatus(w)
    \/ \E w \in Workers : EnablePagesCall(w)
    \/ \E w \in Workers : VerifyPagesStatus(w)
    \/ \E w \in Workers : VerifyPagesCall(w)
    \/ \E w \in Workers : NotifyEvaluatorStatus(w)
    \/ \E w \in Workers : NotifyEvaluatorCall(w)
    \/ \E w \in Workers : Complete(w)

Spec == Init /\ [][Next]_vars

\* One more delivery by the at-least-once queue, after the MaxDeliveries
\* deliveries of Start have all returned and while no call is in progress:
\* process_task lines 33-41 for a job that was already processed.
Redeliver(w) ==
    /\ w = "w1"
    /\ InProgress = 0
    /\ Deliveries = MaxDeliveries
    /\ \E id \in 1..Len(tasks) :
         /\ sent[id] > 0
         /\ delivered' = [delivered EXCEPT ![id] = @ + 1]
         /\ Continue(w, [IdleRun EXCEPT !.pc = "generating", !.task_id = id])
    /\ UNCHANGED <<tasks, Intake, github_token, repos_created>>

NextRedelivery ==
    \/ Next
    \/ \E w \in Workers : Redeliver(w)

\* the program with a queue that delivers once more after the work is done
SpecRedelivery == Init /\ [][NextRedelivery]_vars

\* the steps of the process_task execution of worker w, once it has its row
ProcessTask(w) ==
    \/ GeneratingProject(w)
    \/ CreateRepoStatus(w)
    \/ CreateRepoCall(w)
    \/ PushCommitStatus(w)
    \/ PushCommitCall(w)
    \/ EnablePagesStatus(w)
    \/ EnablePagesCall(w)
    \/ VerifyPagesStatus(w)
    \/ VerifyPagesCall(w)
    \/ NotifyEvaluatorStatus(w)
    \/ NotifyEvaluatorCall(w)
    \/ Complete(w)

\* a worker that has started an execution goes on with it: every statement
\* and every external call of process_task returns or raises
LiveSpec == Spec /\ \A w \in Workers : WF_vars(ProcessTask(w))

(* ------------------------------ properties ----------------------------- *)
RowsOf(nonce) == {i \in 1..Len(tasks) : tasks[i].nonce = nonce}

\* a step that begins a call of api_endpoint
NewCall == requests_made' = requests_made + 1

\* the request that call carries
NewRequest ==
    IF response' # NoAnswer
    THEN [secret |-> response'.secret, nonce |-> response'.nonce,
          round |-> response'.round]
    ELSE LET c == CHOOSE d \in Clients : requests'[d] # requests[d]
         IN  [secret |-> requests'[c].secret, nonce |-> requests'[c].nonce,
              round |-> requests'[c].round]

\* C1: for every nonce at most one row exists and send_task has been called at
\* most once for it, under any interleaving of the calls carrying that nonce;
\* only the request that inserted the row enqueues a job.
C1_OneRowOneJobPerNonce ==
    /\ \A n \in Range(Nonces) :
         /\ Cardinality(RowsOf(n)) <= 1
         /\ Sum([id \in TaskIds |-> IF id \in RowsOf(n) THEN sent[id] ELSE 0],
                MaxRequests) <= 1
    /\ \A id \in TaskIds : sent[id] > 0 => id \in 1..Len(tasks)

\* two calls with one nonce raced: the loser has its answer from the
\* IntegrityError path while the winner has inserted and not yet dispatched
C1_Witness ==
    /\ response.via = "integrity"
    /\ \E c \in Clients : requests[c].pc = "dispatch" /\ requests[c].nonce = response.nonce

\* C2: a call with a (nonce, round) whose row is COMPLETE answers 200 with that
\* row's stored status, task name and nonce, adds no row, changes no row and
\* enqueues nothing (the call ends in that step).
C2_CompleteIsReplayed ==
    [][(NewCall /\ NewRequest.secret = EXPECTED_SECRET)
         => \A t \in Rows :
              (t.nonce = NewRequest.nonce /\ t.round = NewRequest.round
                 /\ t.status = "COMPLETE")
              => /\ response'.code = 200
                 /\ response'.body = AcknowledgementResponse(t.status, t.task_name, t.nonce)
                 /\ tasks' = tasks
                 /\ sent' = sent
                 /\ requests' = requests]_vars

\* a call was answered from a COMPLETE row although it named another task
C2_Witness ==
    /\ response.via = "complete"
    /\ response.body.status = "COMPLETE"
    /\ response.task # response.body.task

\* C3: once a row is COMPLETE or FAILED no step changes any of its fields, for
\* every delivery of its job the queue can make.
C3_TerminalRowsAreFrozen ==
    [][\A i \in 1..Len(tasks) : tasks[i].status \in TERMINAL => tasks'[i] = tasks[i]]_vars

\* C4: repo_url, commit_sha and pages_url are write-once: a field that holds a
\* value is never assigned again.
C4_ResultsWriteOnce ==
    [][\A i \in 1..Len(tasks) :
         /\ Present(tasks[i].repo_url) => tasks'[i].repo_url = tasks[i].repo_url
         /\ Present(tasks[i].commit_sha) => tasks'[i].commit_sha = tasks[i].commit_sha
         /\ Present(tasks[i].pages_url) => tasks'[i].pages_url = tasks[i].pages_url]_vars

\* C5: no POST attempt of the notifier starts later than 600 s after the
\* start_time of its pipeline run.
C5_NoPostAfterDeadline ==
    \A w \in Workers :
        /\ runs[w].posts > 0 => runs[w].last_post_at <= STOP_AFTER_DELAY
        /\ finished.posts > 0 => finished.last_post_at <= STOP_AFTER_DELAY

\* C6: a call with a wrong secret is answered 403 and leaves the store and the
\* queue as they were, whatever it carries and whatever rows exist.
C6_WrongSecretChangesNothing ==
    [][(NewCall /\ NewRequest.secret # EXPECTED_SECRET)
         => /\ response'.code = 403
            /\ tasks' = tasks
            /\ supplied' = supplied
            /\ sent' = sent
            /\ requests' = requests]_vars

\* a call with a wrong secret was rejected although it named a stored nonce
C6_Witness ==
    /\ response.code = 403
    /\ response.secret # EXPECTED_SECRET
    /\ RowsOf(response.nonce) # {}

\* C7: a call whose insert hits the uniqueness constraint is answered with the
\* stored row's current status, task name and nonce, for every round it
\* carries; it is never answered with a conflict.
C7_DuplicateGetsStoredOutcome ==
    response.via = "integrity"
        => /\ response.code = 200
           /\ \E t \in Rows :
                /\ t.nonce = response.nonce
                /\ response.body = AcknowledgementResponse(t.status, t.task_name, t.nonce)

\* C8: a run whose repository creation succeeded and whose push failed ends
\* with the row FAILED, a non-empty error_message and commit_sha unset.
C8_PushFailureEndsFailed ==
    (finished.pc = "done" /\ finished.created /\ finished.push_failed)
        => LET t == tasks[finished.task_id]
           IN  /\ t.status = "FAILED"
               /\ t.error_message # None
               /\ ~Present(t.commit_sha)

\* C9: when the page never answers 200 the verifier stops after at most
\* timeout / interval = 30 polls and 300 s of waiting, the computed URL is
\* stored in pages_url, the step does not fail, and the next step of the run
\* commits NOTIFY_EVALUATOR.
C9_VerifierTimeoutProceeds ==
    [][\A w \in Workers :
         LET id == runs[w].task_id IN
         /\ (runs[w].pc = "verify_pages_call" /\ runs'[w].timed_out)
              => /\ runs'[w].polls <= VERIFY_TIMEOUT \div VERIFY_INTERVAL
                 /\ runs'[w].clock - runs[w].clock <= VERIFY_TIMEOUT
                 /\ tasks'[id].pages_url = PagesUrlOf(tasks[id].repo_url)
                 /\ tasks'[id].status = tasks[id].status
                 /\ runs'[w].pc = "notify_evaluator"
         /\ (runs[w].pc = "notify_evaluator" /\ runs'[w] # runs[w])
              => /\ tasks'[id].status = "NOTIFY_EVALUATOR"
                 /\ runs'[w].pc = "notify_evaluator_call"]_vars

\* a run whose verification timed out after 30 polls is at the notifier
C9_Witness ==
    \E w \in Workers :
        /\ runs[w].pc = "notify_evaluator_call"
        /\ runs[w].timed_out
        /\ runs[w].polls = 30
        /\ tasks[runs[w].task_id].status = "NOTIFY_EVALUATOR"
        /\ tasks[runs[w].task_id].pages_url = PagesUrlOf(runs[w].repo_url)

\* C10: for a task submitted with an evaluation_url whose creation, push,
\* publication and verification succeeded, when no POST is answered 200 the
\* notifier retries until its deadline and the row ends FAILED with the
\* notification-failure message.
C10_UnansweredNotificationFails ==
    (/\ finished.pc = "done"
     /\ supplied[finished.task_id] # None
     /\ finished.created /\ ~finished.push_failed
     /\ finished.polls > 0 /\ ~finished.timed_out
     /\ ~finished.got200)
        => LET t == tasks[finished.task_id]
           IN  /\ finished.posts > 0
               /\ finished.last_post_at >= STOP_AFTER_DELAY
               /\ t.status = "FAILED"
               /\ t.error_message = ErrNotifyFailed

\* C11: a call with the correct secret whose nonce has no row commits a new row
\* with status RECEIVED and the request's values, and only in a later step
\* calls send_task, exactly once and with that row's id, answering 200
\* {RECEIVED, task, nonce}; so every delivered job finds its row.
C11_RowCommittedBeforeJob ==
    [][/\ \A c \in Clients :
            LET req == requests[c] IN
            /\ (req.pc = "insert" /\ requests'[c] # req /\ RowsOf(req.nonce) = {})
                 => /\ tasks' = Append(tasks, Task(Len(tasks) + 1, req.nonce, "RECEIVED",
                                                  req.task_name, req.round))
                    /\ sent' = sent
                    /\ requests'[c].pc = "dispatch"
                    /\ requests'[c].new_id = Len(tasks) + 1
            /\ (req.pc = "dispatch" /\ requests'[c] # req)
                 => /\ req.new_id \in 1..Len(tasks)
                    /\ tasks[req.new_id].nonce = req.nonce
                    /\ sent' = [sent EXCEPT ![req.new_id] = sent[req.new_id] + 1]
                    /\ tasks' = tasks
                    /\ response'.code = 200
                    /\ response'.body =
                         AcknowledgementResponse("RECEIVED", req.task_name, req.nonce)
       /\ \A id \in TaskIds :
            delivered'[id] # delivered[id]
                 => /\ sent[id] > 0
                    /\ id \in 1..Len(tasks)
                    /\ \E w \in Workers : runs'[w].pc = "generating" /\ runs'[w].task_id = id
      ]_vars

\* a call was just acknowledged RECEIVED: its row is stored, still RECEIVED, and
\* one job for it is in the queue, not yet delivered
C11_Witness ==
    /\ response.via = "created"
    /\ response.body.status = "RECEIVED"
    /\ \E id \in RowsOf(response.nonce) :
         /\ tasks[id].status = "RECEIVED"
         /\ sent[id] = 1
         /\ delivered[id] = 0

\* the waits a run made between its POST attempts follow min(2^k, 16)
BackoffFollowed(run) ==
    \A k \in 1..Len(run.waits) :
        /\ run.waits[k] = Min(Pow2(k), 16)
        /\ run.waits[k] >= 2
        /\ run.waits[k] <= 16

\* C12: the waits between consecutive POST attempts of the notifier are 2, 4,
\* 8, 16, 16, ...: the wait after the k-th failed attempt is min(2^k, 16)
\* seconds, never less than 2 and never more than 16.
C12_BackoffIsExponentialCapped ==
    /\ \A w \in Workers : BackoffFollowed(runs[w])
    /\ BackoffFollowed(finished)

\* a run gave up after waiting 2, 4, 8, 16, 16, ... between failed attempts
C12_Witness ==
    /\ finished.pc = "done"
    /\ ~finished.got200
    /\ Len(finished.waits) >= 6
    /\ Len(finished.waits) = finished.posts - 1
    /\ SubSeq(finished.waits, 1, 6) = <<2, 4, 8, 16, 16, 16>>

\* C13: delivering the job of one task id more than once has the external
\* effects of a single delivery: no more repositories are created than there
\* are task ids that were delivered.
C13_RedeliveryIsIdempotent ==
    repos_created <= Cardinality({id \in TaskIds : delivered[id] > 0})

\* the status a run commits before the external action at each position
StepStatus ==
    [create_repo_call |-> "CREATE_REPO", push_commit_call |-> "PUSH_COMMIT",
     enable_pages_call |-> "ENABLE_PAGES", verify_pages_call |-> "VERIFY_PAGES",
     notify_evaluator_call |-> "NOTIFY_EVALUATOR"]

\* C14: each step's status is committed before the step's external action
\* starts, so whenever a run is at the action of a step the stored status of its
\* task names that step.
C14_StoredStatusNamesRunningStep ==
    \A w \in Workers :
        runs[w].pc \in DOMAIN StepStatus
            => tasks[runs[w].task_id].status = StepStatus[runs[w].pc]

\* C15: a run stops at the step that fails: the step in which push_to_github
\* fails leaves the row FAILED with the error in error_message, and a run
\* whose push failed takes no further step.
C15_FailedStepStopsRun ==
    [][\A w \in Workers :
         LET id == runs[w].task_id IN
         /\ (runs[w].pc = "push_commit_call" /\ runs'[w].push_failed)
              => /\ tasks'[id].status = "FAILED"
                 /\ tasks'[id].error_message # None
         /\ runs[w].push_failed => runs'[w] = runs[w]]_vars

\* C16: a run for a task submitted with an evaluation_url, whose repository
\* creation, push, publication and verification succeeded and which was never
\* refused by the evaluator, leaves the row COMPLETE with completed_at set,
\* and its POST went to the evaluation_url of the submission.
C16_NotifiedTaskCompletes ==
    (/\ finished.pc = "done"
     /\ supplied[finished.task_id] # None
     /\ finished.created /\ ~finished.push_failed
     /\ finished.polls > 0 /\ ~finished.timed_out
     /\ (finished.posts > 0 => finished.got200))
        => LET t == tasks[finished.task_id]
           IN  /\ t.status = "COMPLETE"
               /\ t.completed_at # None
               /\ finished.got200
               /\ finished.post_target = supplied[finished.task_id]

\* the POSTs of a run went to the evaluation_url supplied with the submission
PostedToSupplied(run) ==
    run.posts > 0
        => /\ supplied[run.task_id] # None
           /\ run.post_target = supplied[run.task_id]

\* C17: the notifier sends no POST when the submission supplied no callback
\* URL, and the only URL it ever posts to is the evaluation_url supplied with
\* the original submission, also for a task that carries an error_message.
C17_PostsOnlyToSuppliedUrl ==
    /\ \A w \in Workers : PostedToSupplied(runs[w])
    /\ PostedToSupplied(finished)

\* C18: every execution of process_task for a task id that has a row returns
\* (the queue making finitely many deliveries, in the end no execution is in
\* progress), and when an execution returns the row is COMPLETE or FAILED,
\* never RECEIVED or a step status.
C18_RunEndsTerminal ==
    /\ <>[](\A w \in Workers : ~Busy(w))
    /\ [](\A id \in 1..Len(tasks) :
            (finished.pc = "done" /\ finished.task_id = id)
                => tasks[id].status \in TERMINAL)

\* an execution returned after the verifier and the notifier both ran into
\* their deadlines
C18_Witness ==
    /\ finished.pc = "done"
    /\ finished.timed_out
    /\ finished.posts > 1
    /\ ~finished.got200
    /\ tasks[finished.task_id].status = "FAILED"

\* C19: in every state of the store a row has completed_at set if and only if
\* its status is COMPLETE.
C19_CompletedAtIffComplete ==
    \A i \in 1..Len(tasks) :
        (tasks[i].completed_at # None) <=> (tasks[i].status = "COMPLETE")

\* C20: without a provisioning credential no repository is created and no
\* page is polled, repo_url, commit_sha and pages_url stay unset, create, push,
\* enable and verify each go on to the next step without touching the row, each
\* step status is committed on the way, and the notifier ends the run FAILED
\* with the missing-fields error without a POST.
C20_NoCredentialNothingToDo ==
    [][~github_token =>
         /\ repos_created' = 0
         /\ \A i \in 1..Len(tasks') :
              /\ ~Present(tasks'[i].repo_url)
              /\ ~Present(tasks'[i].commit_sha)
              /\ ~Present(tasks'[i].pages_url)
         /\ \A w \in Workers :
              LET run == runs[w]
                  id == run.task_id
              IN  (Busy(w) /\ runs'[w] # run) =>
                  /\ run.pc = "create_repo_call"
                       => runs'[w].pc = "push_commit" /\ tasks' = tasks
                  /\ run.pc = "push_commit_call"
                       => runs'[w].pc = "enable_pages" /\ tasks' = tasks
                  /\ run.pc = "enable_pages_call"
                       => runs'[w].pc = "verify_pages" /\ tasks' = tasks
                  /\ run.pc = "verify_pages_call"
                       => /\ runs'[w].pc = "notify_evaluator"
                          /\ runs'[w].polls = 0
                          /\ tasks' = tasks
                  /\ runs'[w].pc \in DOMAIN StepStatus
                       => tasks'[id].status = StepStatus[runs'[w].pc]
                  /\ run.pc = "notify_evaluator_call"
                       => /\ tasks'[id].status = "FAILED"
                          /\ tasks'[id].error_message = ErrMissingFields
                          /\ finished'.pc = "done"
                          /\ finished'.posts = 0
                          /\ ~Busy(w)']_vars

\* without a credential a run went through every step and failed at the notifier
C20_Witness ==
    /\ ~github_token
    /\ finished.pc = "done"
    /\ finished.polls = 0 /\ finished.posts = 0 /\ ~finished.created
    /\ repos_created = 0
    /\ tasks[finished.task_id].status = "FAILED"
    /\ tasks[finished.task_id].error_message = ErrMissingFields
    /\ ~Present(tasks[finished.task_id].repo_url)

====
